---- MODULE Spec2Model ----
(***************************************************************************)
(* gamemap.js: the Cosmo (map-cosmo) and Dangerous Dave (map-ddave) map    *)
(* handlers, modelled as a state machine over one handler call sequence:   *)
(* a caller holds a file content, has the handler parse it, may edit the   *)
(* resulting map, and has the handler generate a file from it.             *)
(* The command line interface (cli/index.js) is modelled after them: a run *)
(* of processCommands over a command line, and Operations.save with the    *)
(* writes it starts.                                                       *)
(*                                                                         *)
(* Representation.  A byte buffer (Uint8Array) is held as its length, the  *)
(* value of the bytes not listed and the listed bytes by offset; a tile    *)
(* array tiles[y][x] is held as its width, its number of rows, the value   *)
(* of the cells not listed and the listed cells by raster index.  All      *)
(* reads go through ByteAt / TileAt, so the handlers see plain arrays.     *)
(* Numbers that the code leaves fractional (map-cosmo.js line 405) are     *)
(* held in fifths: the tile value v is the integer 5 * v.                  *)
(***************************************************************************)
EXTENDS Integers, Sequences, FiniteSets, TLC

VARIABLES handler, content, map, parsed, edits, out, probe, calls, cli

vars == <<handler, content, map, parsed, edits, out, probe, calls, cli>>

(***************************************************************************)
(* Bounds of the model.                                                    *)
(***************************************************************************)
\* Largest number of actor records in a sampled Cosmo file or actor layer.
MaxActors == 1
\* Largest number of checkLimits / queryResize / resize / isPermittedAt calls
\* a caller makes on one map.
MaxCalls == 2

(***************************************************************************)
(* Program constants.                                                      *)
(***************************************************************************)
HEADER_LEN == 6
ACTOR_LEN == 6
ACTOR_LEN_UINT16 == ACTOR_LEN \div 2
COSMO_BG_LEN == 32764
DD_LAYER_LEN_PATH == 256
DD_MAX_PATH == 128
DD_PATH_END == 234
DD_TILE_WIDTH == 16
DD_TILE_HEIGHT == 16
COSMO_BG_TILE_WIDTH == 8
COSMO_BG_TILE_HEIGHT == 8

\* JavaScript's undefined, where a number is expected.
Undefined == -1

\* The denominator the fractional tile values are held in.
FIFTHS == 5

(***************************************************************************)
(* JavaScript integer operators on non-negative operands.                  *)
(***************************************************************************)
RECURSIVE BitAnd(_, _)
BitAnd(a, b) ==
  IF a = 0 \/ b = 0 THEN 0
  ELSE (a % 2) * (b % 2) + 2 * BitAnd(a \div 2, b \div 2)

RECURSIVE BitOr(_, _)
BitOr(a, b) ==
  IF a = 0 THEN b
  ELSE IF b = 0 THEN a
  ELSE (IF a % 2 = 1 \/ b % 2 = 1 THEN 1 ELSE 0) + 2 * BitOr(a \div 2, b \div 2)

ShiftRight(a, n) == a \div (2 ^ n)

ShiftLeft(a, n) == a * (2 ^ n)

\* DataView.setUint16 / RecordType.int.u16le write: ToUint16 of the value.
ToUint16(v) == v % 65536

(***************************************************************************)
(* Byte buffers and tile arrays.                                           *)
(***************************************************************************)
\* A Uint8Array of `len` bytes: `fill` everywhere but at the offsets of `spots`.
Buffer(len, fill, spots) == [ len |-> len, fill |-> fill, spots |-> spots ]

\* content[p]
ByteAt(buf, p) == IF p \in DOMAIN buf.spots THEN buf.spots[p] ELSE buf.fill

\* RecordType.int.u16le read at byte offset p.
ReadU16le(buf, p) == ByteAt(buf, p) + 256 * ByteAt(buf, p + 1)

\* tiles[y][x] for an array of h rows of w cells.
Grid(w, h, fill, spots) == [ w |-> w, h |-> h, fill |-> fill, spots |-> spots ]

TileAt(tiles, y, x) ==
  IF (y * tiles.w + x) \in DOMAIN tiles.spots
    THEN tiles.spots[y * tiles.w + x]
    ELSE tiles.fill

\* An absent value (undefined) and a present one.
None == <<>>

Some(v) == <<v>>

IsDefined(o) == Len(o) > 0

(***************************************************************************)
(* Map_Cosmo: the header flags word.                                       *)
(***************************************************************************)
\* FlagsFromWord with the rain flag taken from bit 6 instead of bit 5.
FlagsFromWordNoRain(w) ==
  [ music     |-> BitAnd(ShiftRight(w, 11), 31),
    animation |-> BitAnd(ShiftRight(w, 8), 7),
    bgScrollY |-> BitAnd(w, 128) # 0,
    bgScrollX |-> BitAnd(w, 64) # 0,
    rain      |-> BitAnd(w, 64) # 0,
    backdrop  |-> BitAnd(w, 31) ]

\* parse, lines 365-373: the flags word into the six attribute values.
FlagsFromWord(w) ==
  [ music     |-> BitAnd(ShiftRight(w, 11), 31),
    animation |-> BitAnd(ShiftRight(w, 8), 7),
    bgScrollY |-> BitAnd(w, 128) # 0,
    bgScrollX |-> BitAnd(w, 64) # 0,
    rain      |-> BitAnd(w, 32) # 0,
    backdrop  |-> BitAnd(w, 31) ]

\* WordFromFlags with the music index shifted by 12 instead of 11.
WordFromFlagsShift12(a) ==
  BitOr(ShiftLeft(BitAnd(a.music, 31), 12),
  BitOr(ShiftLeft(BitAnd(a.animation, 7), 8),
  BitOr(IF a.bgScrollY THEN 128 ELSE 0,
  BitOr(IF a.bgScrollX THEN 64 ELSE 0,
  BitOr(IF a.rain THEN 32 ELSE 0,
        BitAnd(a.backdrop, 31))))))

\* generate, lines 465-472: the six attribute values into header.flags.
WordFromFlags(a) ==
  BitOr(ShiftLeft(BitAnd(a.music, 31), 11),
  BitOr(ShiftLeft(BitAnd(a.animation, 7), 8),
  BitOr(IF a.bgScrollY THEN 128 ELSE 0,
  BitOr(IF a.bgScrollX THEN 64 ELSE 0,
  BitOr(IF a.rain THEN 32 ELSE 0,
        BitAnd(a.backdrop, 31))))))

(***************************************************************************)
(* Map_Cosmo.parse (map-cosmo.js lines 359-458).                           *)
(***************************************************************************)
Min(a, b) == IF a < b THEN a ELSE b

\* Iterations of `for (i = 0; i < n / d; i++)`, n / d not rounded.
LoopCount(n, d) == (n + d - 1) \div d

\* TileFromCode without the zero test of lines 397-400.
TileFromCodeKeepZero(code) ==
  LET tileCode == code \div 8 IN
    IF tileCode > 2000
      THEN FIFTHS * 2000 + (tileCode - 2000)
      ELSE FIFTHS * tileCode

\* Lines 394-407: the on-disk tile code into the tile value, in fifths.
TileFromCode(code) ==
  IF code = 0 THEN Undefined
  ELSE LET tileCode == code \div 8 IN
         IF tileCode > 2000
           THEN FIFTHS * 2000 + (tileCode - 2000)
           ELSE FIFTHS * tileCode

\* MapHeight rounded up instead of down.
MapHeightRoundUp(mapW) == (COSMO_BG_LEN + mapW - 1) \div mapW

\* Line 389: the number of tile rows for a stored width.
MapHeight(mapW) == COSMO_BG_LEN \div mapW

\* The cells, by raster index, whose code is read from a listed byte.
ListedCells(main, tileStart, nTiles) ==
  { (p - tileStart) \div 2 :
      p \in { q \in DOMAIN main.spots :
                q >= tileStart /\ q < tileStart + 2 * nTiles } }

\* The code of a cell read from unlisted bytes only.
FillCode(main) == main.fill + 256 * main.fill

\* Lines 76-95, 249-264: new Map2D_Cosmo(tileCodes, actors); the actor layer
\* is not constructed (line 262).
Map2D_Cosmo(tileCodes, flags) ==
  [ type       |-> "Map2D_Cosmo",
    attributes |-> [ bgmusic   |-> flags.music,
                     animation |-> flags.animation,
                     backdrop  |-> flags.backdrop,
                     bgScrollX |-> flags.bgScrollX,
                     bgScrollY |-> flags.bgScrollY,
                     rain      |-> flags.rain ],
    mapSize    |-> None,
    paths      |-> None,
    layers     |-> << [ type   |-> "2d.tiled",
                        title  |-> "Background",
                        layerW |-> tileCodes.w,
                        layerH |-> tileCodes.h,
                        tileW  |-> COSMO_BG_TILE_WIDTH,
                        tileH  |-> COSMO_BG_TILE_HEIGHT,
                        tiles  |-> tileCodes ] >> ]

NoMap == [ type |-> "none" ]

\* What a call of parse did: how it ended, the actor records it read, the
\* byte offset of the first tile code it read and the number it read.
ParseTrace(status, error, actors, tileStart, tilesRead) ==
  [ status |-> status, error |-> error, actors |-> actors,
    tileStart |-> tileStart, tilesRead |-> tilesRead ]

CosmoParse(c) ==
  LET main == c.main
      header == [ flags         |-> ReadU16le(main, 0),
                  mapWidth      |-> ReadU16le(main, 2),
                  lenActorChunk |-> ReadU16le(main, 4) ]
      flags == FlagsFromWord(header.flags)
      actorCount == LoopCount(header.lenActorChunk, ACTOR_LEN_UINT16)
      actors == [ i \in 1..actorCount |->
                   [ x    |-> ReadU16le(main, HEADER_LEN + ACTOR_LEN * (i - 1) + 2),
                     y    |-> ReadU16le(main, HEADER_LEN + ACTOR_LEN * (i - 1) + 4),
                     code |-> ReadU16le(main, HEADER_LEN + ACTOR_LEN * (i - 1)) ] ]
      tileStart == HEADER_LEN + ACTOR_LEN * actorCount
      mapW == header.mapWidth
      mapH == MapHeight(mapW)
      tileCodes ==
        Grid(mapW, mapH, TileFromCode(FillCode(main)),
             [ i \in ListedCells(main, tileStart, mapW * mapH) |->
                 TileFromCode(ReadU16le(main, tileStart + 2 * i)) ])
  IN
    IF main.len < HEADER_LEN \/ main.len < tileStart
      THEN \* a record read past the end of the buffer
           [ map |-> NoMap,
             trace |-> ParseTrace("error", "RangeError", <<>>, 0, 0) ]
    ELSE IF mapW = 0
      THEN \* mapH is Infinity: the row loop of line 391 does not end
           [ map |-> NoMap,
             trace |-> ParseTrace("diverges", "", actors, tileStart, 0) ]
    ELSE IF main.len < tileStart + 2 * mapW * mapH
      THEN \* a tile read past the end of the buffer
           [ map |-> NoMap,
             trace |-> ParseTrace("error", "RangeError", actors, tileStart,
                                  (main.len - tileStart) \div 2) ]
    ELSE IF mapH = 0
      THEN \* line 79: tiles[0] is undefined
           [ map |-> NoMap,
             trace |-> ParseTrace("error", "TypeError", actors, tileStart, 0) ]
    ELSE [ map |-> Map2D_Cosmo(tileCodes, flags),
           trace |-> ParseTrace("ok", "", actors, tileStart, mapW * mapH) ]

(***************************************************************************)
(* Map_Cosmo.generate (map-cosmo.js lines 460-501).                        *)
(***************************************************************************)
\* Line 495: `tileCodes[y][x] || 0` as the u16 written.
WordFromTile(t) ==
  IF t = Undefined \/ t = 0 THEN 0 ELSE ToUint16(t \div FIFTHS)

\* Line 477.
FileSize(lenActorChunk) == HEADER_LEN + lenActorChunk * 2 + COSMO_BG_LEN

NoOutput == [ status |-> "none" ]

\* `grow`: whether the RecordBuffer enlarges itself on a write past the size
\* it was created with (TRUE) or raises an error (FALSE); the record-io-buffer
\* package decides, and it is not part of this repository.
CosmoGenerate(m, grow) ==
  IF Len(m.layers) < 2
    THEN \* line 461: map.layers[1] is undefined
         [ status |-> "error", error |-> "TypeError", at |-> "layers" ]
  ELSE IF ~IsDefined(m.mapSize)
    THEN \* line 463: map.mapSize is undefined
         [ status |-> "error", error |-> "TypeError", at |-> "mapSize" ]
  ELSE
    LET items == m.layers[2].items
        numActors == Len(items)
        mapX == m.mapSize[1].x
        header == [ flags |-> WordFromFlags(
                                [ music     |-> m.attributes.bgmusic,
                                  animation |-> m.attributes.animation,
                                  bgScrollY |-> m.attributes.bgScrollY,
                                  bgScrollX |-> m.attributes.bgScrollX,
                                  rain      |-> m.attributes.rain,
                                  backdrop  |-> m.attributes.backdrop ]),
                    mapWidth |-> mapX,
                    lenActorChunk |-> numActors * ACTOR_LEN_UINT16 ]
        fileSize == FileSize(header.lenActorChunk)
        tileStart == HEADER_LEN + ACTOR_LEN * numActors
        tileCodes == m.layers[1].tiles
        \* tile positions i whose row floor(i / mapX) exists (lines 493-495)
        withRow == IF mapX = 0 THEN 0
                   ELSE Min(COSMO_BG_LEN, mapX * tileCodes.h)
        \* tile words that fit in a buffer of fileSize bytes
        fitting == (fileSize - tileStart) \div 2
        written == IF grow THEN withRow ELSE Min(withRow, fitting)
        \* position i = y * mapX + x of the listed cell j = y * w + x
        PosOf(j) == (j \div tileCodes.w) * mapX + (j % tileCodes.w)
        listed == { j \in DOMAIN tileCodes.spots :
                      (j % tileCodes.w) < mapX /\ PosOf(j) < written }
    IN
      [ status   |-> IF written = COSMO_BG_LEN THEN "ok" ELSE "error",
        error    |-> IF written = COSMO_BG_LEN THEN ""
                     ELSE IF written = withRow THEN "TypeError"
                     ELSE "RangeError",
        at       |-> IF written = COSMO_BG_LEN THEN "" ELSE "tiles",
        fileSize |-> fileSize,
        header   |-> header,
        actors   |-> [ k \in 1..numActors |->
                        [ type |-> items[k].code,
                          x    |-> items[k].x,
                          y    |-> items[k].y ] ],
        tileStart |-> tileStart,
        tiles    |-> [ n     |-> written,
                       fill  |-> WordFromTile(tileCodes.fill),
                       spots |-> [ i \in { PosOf(j) : j \in listed } |->
                                    WordFromTile(
                                      TileAt(tileCodes, i \div mapX, i % mapX)) ] ],
        end      |-> tileStart + 2 * written ]

(***************************************************************************)
(* Map_DDave.parse (map-ddave.js lines 195-275) and generate (279-315).    *)
(***************************************************************************)
\* Lines 53-72, 79-99, 106-134: new Map2D_DDave(bgTiles, enemyInfo, options),
\* reached only when options.playerStartX is undefined.
Map2D_DDave(bgTiles, enemyInfo, options) ==
  LET enabled == { i \in 1..Len(enemyInfo) : enemyInfo[i].enabled }
      \* the k-th enabled record, in record order
      Nth(k) == CHOOSE i \in enabled :
                  Cardinality({ j \in enabled : j < i }) = k - 1
  IN
  [ type      |-> "Map2D_DDave",
    viewportW |-> 20 * DD_TILE_WIDTH,
    viewportH |-> 10 * DD_TILE_HEIGHT,
    mapSize   |-> None,
    paths     |-> None,
    layers    |-> << [ type   |-> "2d.tiled",
                       title  |-> "Background",
                       layerW |-> bgTiles.w,
                       layerH |-> bgTiles.h,
                       tileW  |-> DD_TILE_WIDTH,
                       tileH  |-> DD_TILE_HEIGHT,
                       tiles  |-> bgTiles ],
                     [ type  |-> "2d.list",
                       tileIndex |-> options.monsterTileIndex,
                       items |-> [ k \in 1..Cardinality(enabled) |->
                                    [ x       |-> enemyInfo[Nth(k)].pixelX,
                                      y       |-> enemyInfo[Nth(k)].pixelY - 16,
                                      code    |-> Nth(k) - 1,
                                      xAttach |-> 0,
                                      yAttach |-> 0 ] ] ] >> ]

\* Lines 197-208: the grid size and the path flag for a content length.
DDaveVariant(len) ==
  IF len = 10 * 7 THEN [ ok |-> TRUE, mapW |-> 10, mapH |-> 7, hasPath |-> FALSE ]
  ELSE IF len = 1280
    THEN [ ok |-> TRUE, mapW |-> 100, mapH |-> 10, hasPath |-> TRUE ]
  ELSE [ ok |-> FALSE, mapW |-> 0, mapH |-> 0, hasPath |-> FALSE ]

\* DDaveEnemyList reading the five fields of a record one after the other,
\* ten bytes per record.
DDaveEnemyListPacked(enemy) ==
  [ i \in 1..4 |->
      [ enabled    |-> ReadU16le(enemy, 10 * (i - 1)) # 0,
        pixelX     |-> ReadU16le(enemy, 10 * (i - 1) + 2),
        pixelY     |-> ReadU16le(enemy, 10 * (i - 1) + 4),
        pathOffset |-> ReadU16le(enemy, 10 * (i - 1) + 6),
        calmness   |-> ReadU16le(enemy, 10 * (i - 1) + 8) ] ]

\* Lines 248-270: the four enemy records of the enemy buffer.
DDaveEnemyList(enemy) ==
  [ i \in 1..4 |->
      [ enabled    |-> ReadU16le(enemy, 2 * (i - 1)) # 0,
        pixelX     |-> ReadU16le(enemy, 2 * (i - 1) + 8),
        pixelY     |-> ReadU16le(enemy, 2 * (i - 1) + 16),
        pathOffset |-> ReadU16le(enemy, 2 * (i - 1) + 24),
        calmness   |-> ReadU16le(enemy, 2 * (i - 1) + 32) ] ]

\* c.enemy is None when no enemy buffer is supplied.
DDaveParse(c, options) ==
  LET main == c.main
      v == DDaveVariant(main.len)
      offset == IF v.hasPath THEN DD_LAYER_LEN_PATH ELSE 0
      \* line 237: row[x] = content[offset++]
      bgTiles ==
        Grid(v.mapW, v.mapH, main.fill,
             [ i \in { p - offset : p \in { q \in DOMAIN main.spots :
                                             q >= offset
                                             /\ q < offset + v.mapW * v.mapH } }
                 |-> ByteAt(main, offset + i) ])
      enemyList == IF IsDefined(c.enemy) THEN DDaveEnemyList(c.enemy[1])
                   ELSE <<>>
  IN
    IF ~v.ok
      THEN \* line 207: Unrecognised map size
           [ map |-> NoMap,
             trace |-> ParseTrace("error", "Error", <<>>, 0, 0) ]
    ELSE IF IsDefined(c.enemy) /\ c.enemy[1].len < 2 * 3 + 32 + 2
      THEN \* an enemy field read past the end of the enemy buffer
           [ map |-> NoMap,
             trace |-> ParseTrace("error", "RangeError", <<>>, offset,
                                  v.mapW * v.mapH) ]
    ELSE IF IsDefined(options.playerStartX)
      THEN \* line 129: MapLayer_DDave_Player is not defined
           [ map |-> NoMap,
             trace |-> ParseTrace("error", "ReferenceError", <<>>, offset,
                                  v.mapW * v.mapH) ]
    ELSE [ map |-> Map2D_DDave(bgTiles, enemyList, options),
           trace |-> ParseTrace("ok", "", <<>>, offset, v.mapW * v.mapH) ]

\* Line 280: DD_FILESIZE is not defined (its definition, line 45, is a
\* comment), so the first statement of generate raises a ReferenceError.
DDaveGenerate(m) ==
  [ status |-> "error", error |-> "ReferenceError", at |-> "DD_FILESIZE" ]

(***************************************************************************)
(* The flags word on its own: a word is unpacked as parse does and packed  *)
(* again as generate does, or six attribute values are packed and then     *)
(* unpacked.                                                               *)
(***************************************************************************)
\* The attribute values parse can produce (rangeMin/rangeMax, lines 413-455).
FlagAttrs ==
  [ music : 0..31, animation : 0..7, bgScrollY : BOOLEAN,
    bgScrollX : BOOLEAN, rain : BOOLEAN, backdrop : 0..31 ]

NoAttrs ==
  [ music |-> Undefined, animation |-> Undefined, bgScrollY |-> FALSE,
    bgScrollX |-> FALSE, rain |-> FALSE, backdrop |-> Undefined ]

ProbeOff == [ from |-> "off" ]

\* No command line run in progress.
NoCli == [ phase |-> "off" ]

\* Nothing opened, nothing parsed, nothing generated.
Idle ==
  /\ handler = "none"
  /\ content = [ main |-> Buffer(0, 0, <<>>), enemy |-> None ]
  /\ map = NoMap
  /\ parsed = ParseTrace("none", "", <<>>, 0, 0)
  /\ edits = {}
  /\ out = NoOutput
  /\ calls = <<>>
  /\ cli = NoCli

InitFlags ==
  /\ Idle
  /\ \/ \E f \in 0..65535 :
          probe = [ from |-> "word", step |-> 0, word |-> f,
                    attrs |-> NoAttrs, origWord |-> f,
                    origAttrs |-> NoAttrs ]
     \/ \E a \in FlagAttrs :
          probe = [ from |-> "attrs", step |-> 0, word |-> Undefined,
                    attrs |-> a, origWord |-> Undefined, origAttrs |-> a ]

\* parse's flags step, applied to the probe's word.
FlagsParse ==
  /\ \/ probe.from = "word" /\ probe.step = 0
     \/ probe.from = "attrs" /\ probe.step = 1
  /\ probe' = [ probe EXCEPT !.attrs = FlagsFromWord(probe.word),
                             !.step = @ + 1 ]
  /\ UNCHANGED <<handler, content, map, parsed, edits, out, calls, cli>>

\* generate's flags step, applied to the probe's attribute values.
FlagsGenerate ==
  /\ \/ probe.from = "attrs" /\ probe.step = 0
     \/ probe.from = "word" /\ probe.step = 1
  /\ probe' = [ probe EXCEPT !.word = WordFromFlags(probe.attrs),
                             !.step = @ + 1 ]
  /\ UNCHANGED <<handler, content, map, parsed, edits, out, calls, cli>>

NextFlags == FlagsParse \/ FlagsGenerate

SpecFlags == InitFlags /\ [][NextFlags]_vars

\* C3: packing six in-range attribute values into the flags word as generate
\* does and unpacking that word as parse does gives back the same six values.
C3_PackThenUnpack ==
  (probe.from = "attrs" /\ probe.step = 2) => probe.attrs = probe.origAttrs

\* The example of the claim, packed and unpacked again.
C3_Witness ==
  /\ probe.from = "attrs" /\ probe.step = 2
  /\ probe.origAttrs = [ music |-> 5, animation |-> 3, bgScrollX |-> TRUE,
                         bgScrollY |-> FALSE, rain |-> TRUE, backdrop |-> 17 ]
  /\ probe.word = 11121

\* C4: unpacking any 16-bit flags word as parse does and packing the result
\* as generate does gives back the same word, with no bit above bit 15.
C4_UnpackThenPack ==
  (probe.from = "word" /\ probe.step = 2) =>
     /\ probe.word = probe.origWord
     /\ probe.word \in 0..65535

\* A word with every bit set, unpacked and packed again.
C4_Witness ==
  /\ probe.from = "word" /\ probe.step = 2
  /\ probe.origWord = 65535
  /\ probe.attrs = [ music |-> 31, animation |-> 7, bgScrollX |-> TRUE,
                     bgScrollY |-> TRUE, rain |-> TRUE, backdrop |-> 31 ]

(***************************************************************************)
(* The handlers at work: the contents a caller holds, and the calls.       *)
(***************************************************************************)
\* A Cosmo level file: the header, the actor records, then COSMO_BG_LEN tile
\* codes, `fill` in both bytes of every code but those listed in `codes`.
CosmoFile(flags, mapWidth, actors, fill, codes) ==
  LET lenActorChunk == Len(actors) * ACTOR_LEN_UINT16
      tileStart == HEADER_LEN + ACTOR_LEN * Len(actors)
      HeadWord(k) ==
        IF k = 0 THEN flags
        ELSE IF k = 1 THEN mapWidth
        ELSE IF k = 2 THEN lenActorChunk
        ELSE LET a == actors[((k - 3) \div 3) + 1] IN
               IF (k - 3) % 3 = 0 THEN a.type
               ELSE IF (k - 3) % 3 = 1 THEN a.x ELSE a.y
      ByteOf(w, half) == IF half = 0 THEN w % 256 ELSE (w \div 256) % 256
  IN Buffer(tileStart + 2 * COSMO_BG_LEN, fill,
            [ p \in 0..(tileStart - 1) |-> ByteOf(HeadWord(p \div 2), p % 2) ]
            @@
            [ p \in UNION { { tileStart + 2 * i, tileStart + 2 * i + 1 } :
                            i \in DOMAIN codes } |->
                ByteOf(codes[(p - tileStart) \div 2], (p - tileStart) % 2) ])

SampleFlags == { 11121, 65535 }

SampleWidths == { 0, 4, 256, 40000 }

SampleActors ==
  { [ type |-> 0, x |-> 3, y |-> 4 ], [ type |-> 31, x |-> 300, y |-> 2 ] }

ActorLists == UNION { [ 1..n -> SampleActors ] : n \in 0..MaxActors }

SampleTiles ==
  { [ fill |-> 0, codes |-> <<>> ],
    [ fill |-> 0, codes |-> (0 :> 16) @@ (1 :> 5) @@ (32511 :> 8)
                            @@ (32512 :> 24) @@ (32763 :> 16008) ],
    [ fill |-> 1, codes |-> (2 :> 0) @@ (3 :> 16016) ] }

\* A Cosmo level file whose header gives lenActorChunk words of actor data
\* (all zero), whatever that number is, followed by COSMO_BG_LEN zero codes.
CosmoFileChunk(mapWidth, lenActorChunk) ==
  Buffer(HEADER_LEN + 2 * lenActorChunk + 2 * COSMO_BG_LEN, 0,
         (2 :> mapWidth % 256) @@ (3 :> mapWidth \div 256)
         @@ (4 :> lenActorChunk % 256) @@ (5 :> lenActorChunk \div 256))

\* Actor chunk lengths that are not a whole number of actor records.
SampleChunks == { 4, 5 }

CosmoContents ==
  { [ main |-> CosmoFile(f, w, a, t.fill, t.codes), enemy |-> None ] :
      f \in SampleFlags, w \in SampleWidths, a \in ActorLists,
      t \in SampleTiles }
  \cup { [ main |-> CosmoFileChunk(256, n), enemy |-> None ] :
           n \in SampleChunks }

SampleDDaveLengths == { 0, 69, 70, 71, 1279, 1280, 1281 }

SampleDDaveBytes ==
  { [ fill |-> 0, bytes |-> <<>> ],
    [ fill |-> 5, bytes |-> (0 :> 7) @@ (1 :> 234) @@ (2 :> 234) @@ (3 :> 234)
                            @@ (69 :> 9) @@ (256 :> 11) @@ (1255 :> 12)
                            @@ (1256 :> 13) ] }

SampleEnemies ==
  { None,
    Some(Buffer(96, 0, <<>>)),
    Some(Buffer(96, 0, (0 :> 1) @@ (8 :> 40) @@ (16 :> 48) @@ (4 :> 0)
                       @@ (5 :> 1) @@ (12 :> 44) @@ (13 :> 1) @@ (20 :> 16))) }

DDaveContents ==
  { [ main |-> Buffer(n, b.fill,
                      [ p \in { q \in DOMAIN b.bytes : q < n } |-> b.bytes[p] ]),
      enemy |-> e ] :
      n \in SampleDDaveLengths, b \in SampleDDaveBytes, e \in SampleEnemies }

SampleOptions ==
  { [ monsterTileIndex |-> None, playerStartX |-> None, playerStartY |-> None ],
    [ monsterTileIndex |-> Some(3), playerStartX |-> None, playerStartY |-> None ],
    [ monsterTileIndex |-> None, playerStartX |-> Some(16),
      playerStartY |-> Some(32) ] }

Init ==
  /\ \/ handler = "map-cosmo" /\ content \in CosmoContents
     \/ handler = "map-ddave" /\ content \in DDaveContents
  /\ map = NoMap
  /\ parsed = ParseTrace("none", "", <<>>, 0, 0)
  /\ edits = {}
  /\ out = NoOutput
  /\ calls = <<>>
  /\ cli = NoCli
  /\ probe = ProbeOff

\* map = Map_Cosmo.parse(content)
ParseCosmo ==
  /\ handler = "map-cosmo"
  /\ parsed.status = "none"
  /\ LET r == CosmoParse(content) IN
       /\ map' = r.map
       /\ parsed' = r.trace
  /\ UNCHANGED <<handler, content, edits, out, probe, calls, cli>>

\* map = Map_DDave.parse(content, options)
ParseDDave ==
  /\ handler = "map-ddave"
  /\ parsed.status = "none"
  /\ \E options \in SampleOptions :
       LET r == DDaveParse(content, options) IN
         /\ map' = r.map
         /\ parsed' = r.trace
  /\ UNCHANGED <<handler, content, edits, out, probe, calls, cli>>

\* The caller appends a list layer of actors to the parsed map
\* (Map2D.layers, map2d.js lines 134-139).
EditAddActorLayer ==
  /\ handler = "map-cosmo"
  /\ parsed.status = "ok"
  /\ out.status = "none"
  /\ Len(map.layers) = 1
  /\ \E actors \in ActorLists :
       map' = [ map EXCEPT !.layers =
                  Append(@, [ type  |-> "2d.list",
                              items |-> [ k \in 1..Len(actors) |->
                                           [ x    |-> actors[k].x,
                                             y    |-> actors[k].y,
                                             code |-> actors[k].type ] ] ]) ]
  /\ edits' = edits \cup { "layers" }
  /\ UNCHANGED <<handler, content, parsed, out, probe, calls, cli>>

\* The caller sets map.mapSize to the size of the tile array
\* (Map2D.mapSize, map2d.js lines 112-120).
EditSetMapSize ==
  /\ handler = "map-cosmo"
  /\ parsed.status = "ok"
  /\ out.status = "none"
  /\ ~IsDefined(map.mapSize)
  /\ map' = [ map EXCEPT !.mapSize =
                Some([ x |-> map.layers[1].tiles.w,
                       y |-> map.layers[1].tiles.h ]) ]
  /\ edits' = edits \cup { "mapSize" }
  /\ UNCHANGED <<handler, content, parsed, out, probe, calls, cli>>

\* out = Map_Cosmo.generate(map)
GenerateCosmo ==
  /\ handler = "map-cosmo"
  /\ parsed.status = "ok"
  /\ out.status = "none"
  /\ \E grow \in BOOLEAN : out' = CosmoGenerate(map, grow)
  /\ UNCHANGED <<handler, content, map, parsed, edits, probe, calls, cli>>

\* out = Map_DDave.generate(map)
GenerateDDave ==
  /\ handler = "map-ddave"
  /\ parsed.status = "ok"
  /\ out.status = "none"
  /\ out' = DDaveGenerate(map)
  /\ UNCHANGED <<handler, content, map, parsed, edits, probe, calls, cli>>

Next ==
  \/ ParseCosmo
  \/ ParseDDave
  \/ EditAddActorLayer
  \/ EditSetMapSize
  \/ GenerateCosmo
  \/ GenerateDDave

Spec == Init /\ [][Next]_vars

(***************************************************************************)
(* A tile code on its own: an on-disk code is turned into a tile value as  *)
(* parse does, the value is written as generate does, and the written code *)
(* is parsed again.                                                        *)
(***************************************************************************)
SampleCodes == (0..255) \cup { 1000, 15999, 16000, 16007, 16008, 16016, 16048, 65535 }

InitTile ==
  /\ Idle
  /\ probe \in { [ from |-> "code", step |-> 0, code |-> c, tile |-> Undefined,
                   word |-> Undefined, tile2 |-> Undefined ] : c \in SampleCodes }

\* Lines 394-407 on the probe's code.
TileParse ==
  /\ probe.from = "code" /\ probe.step = 0
  /\ probe' = [ probe EXCEPT !.tile = TileFromCode(probe.code), !.step = 1 ]
  /\ UNCHANGED <<handler, content, map, parsed, edits, out, calls, cli>>

\* Line 495 on the probe's tile value.
TileGenerate ==
  /\ probe.from = "code" /\ probe.step = 1
  /\ probe' = [ probe EXCEPT !.word = WordFromTile(probe.tile), !.step = 2 ]
  /\ UNCHANGED <<handler, content, map, parsed, edits, out, calls, cli>>

\* Lines 394-407 on the code generate wrote.
TileReparse ==
  /\ probe.from = "code" /\ probe.step = 2
  /\ probe' = [ probe EXCEPT !.tile2 = TileFromCode(probe.word), !.step = 3 ]
  /\ UNCHANGED <<handler, content, map, parsed, edits, out, calls, cli>>

NextTile == TileParse \/ TileGenerate \/ TileReparse

SpecTile == InitTile /\ [][NextTile]_vars

(***************************************************************************)
(* The file generate returns, read back byte by byte.                      *)
(***************************************************************************)
\* The i-th tile code written by the loop of lines 492-496.
OutTileWord(o, i) ==
  IF i \in DOMAIN o.tiles.spots THEN o.tiles.spots[i] ELSE o.tiles.fill

\* The k-th u16 of the buffer: header (line 480), actors (482-489), tiles.
OutWord(o, k) ==
  IF k = 0 THEN o.header.flags
  ELSE IF k = 1 THEN o.header.mapWidth
  ELSE IF k = 2 THEN o.header.lenActorChunk
  ELSE IF k < 3 + 3 * Len(o.actors)
    THEN LET a == o.actors[((k - 3) \div 3) + 1] IN
           IF (k - 3) % 3 = 0 THEN a.type
           ELSE IF (k - 3) % 3 = 1 THEN a.x ELSE a.y
  ELSE OutTileWord(o, k - 3 - 3 * Len(o.actors))

\* Line 499: byte p of buffer.getU8().
OutByte(o, p) ==
  IF p % 2 = 0 THEN ToUint16(OutWord(o, p \div 2)) % 256
  ELSE ToUint16(OutWord(o, p \div 2)) \div 256

(***************************************************************************)
(* The claims.                                                             *)
(***************************************************************************)
\* The header fields of a Cosmo content.
HeaderOf(c) ==
  [ flags         |-> ReadU16le(c.main, 0),
    mapWidth      |-> ReadU16le(c.main, 2),
    lenActorChunk |-> ReadU16le(c.main, 4) ]

\* A Cosmo level file as the game writes it: a permitted width, whole actor
\* records, and every tile code present.
WellFormedCosmo(c) ==
  /\ c.main.len >= HEADER_LEN
  /\ HeaderOf(c).mapWidth \in { 64, 128, 256, 512, 1024 }
  /\ HeaderOf(c).lenActorChunk % ACTOR_LEN_UINT16 = 0
  /\ c.main.len = HEADER_LEN + 2 * HeaderOf(c).lenActorChunk + 2 * COSMO_BG_LEN

\* C1: for a well-formed Cosmo file, generate applied to the map parse returns
\* gives a main buffer byte-for-byte identical to the file.
C1_RoundTripCosmo ==
  ( /\ handler = "map-cosmo"
    /\ WellFormedCosmo(content)
    /\ edits = {}
    /\ out.status # "none" )
  => /\ out.status = "ok"
     /\ out.end = content.main.len
     /\ \A p \in 0..(content.main.len - 1) :
          OutByte(out, p) = ByteAt(content.main, p)

\* C2: for a 70-byte or 1280-byte Dangerous Dave content, generate applied to
\* the map parse returns gives a main buffer identical to the content, 70 zero
\* bytes included.
C2_RoundTripDDave ==
  ( /\ handler = "map-ddave"
    /\ content.main.len \in { 70, 1280 }
    /\ out.status # "none" )
  => /\ out.status = "ok"
     /\ out.main.len = content.main.len
     /\ \A p \in 0..(content.main.len - 1) :
          ByteAt(out.main, p) = ByteAt(content.main, p)

\* A Cosmo file that holds its actor records and all COSMO_BG_LEN tile codes.
CompleteCosmo(c) ==
  /\ c.main.len >= HEADER_LEN
  /\ c.main.len >= HEADER_LEN + 2 * HeaderOf(c).lenActorChunk + 2 * COSMO_BG_LEN

\* The background layer has exactly floor(32764 / W) rows of W cells each.
GridShapeCosmo(W) ==
  /\ parsed.status = "ok"
  /\ Len(map.layers) >= 1
  /\ map.layers[1].type = "2d.tiled"
  /\ map.layers[1].tiles.h = COSMO_BG_LEN \div W
  /\ map.layers[1].tiles.w = W
  /\ map.layers[1].layerW = W
  /\ map.layers[1].layerH = COSMO_BG_LEN \div W

C6_ReadsWholeTileRegion ==
  (handler = "map-cosmo" /\ parsed.status = "ok")
  => /\ parsed.tileStart = HEADER_LEN + 2 * HeaderOf(content).lenActorChunk
     /\ parsed.tilesRead = COSMO_BG_LEN

\* generate got as far as creating its buffer (line 478).
SizedBuffer == handler = "map-cosmo" /\ out.status # "none"
               /\ out.at \notin { "layers", "mapSize" }

\* C7: the buffer generate creates for a map with N actors is 6 + 6N + 65528
\* bytes long, and every write lands inside the buffer as it was sized.
C7_BufferSize ==
  SizedBuffer
  => /\ out.fileSize = HEADER_LEN + ACTOR_LEN * Len(map.layers[2].items)
                       + 2 * COSMO_BG_LEN
     /\ out.end <= out.fileSize
     /\ out.status = "ok" => out.end = out.fileSize

\* C8: a tile code of 0 on disk is parsed into an empty cell, and generate
\* writes code 0 for every empty cell; a generate that returns has written
\* every cell of the tile array.
C8_ZeroIsNoTile ==
  /\ ( handler = "map-cosmo" /\ parsed.status = "ok"
       /\ edits = {} /\ out.status = "none" )
     => \A i \in 0..(parsed.tilesRead - 1) :
          ReadU16le(content.main, parsed.tileStart + 2 * i) = 0
            => TileAt(map.layers[1].tiles, i \div map.layers[1].tiles.w,
                      i % map.layers[1].tiles.w) = Undefined
  /\ SizedBuffer
     => /\ \A i \in 0..(out.tiles.n - 1) :
             TileAt(map.layers[1].tiles, i \div map.mapSize[1].x,
                    i % map.mapSize[1].x) = Undefined
               => OutTileWord(out, i) = 0
        /\ out.status = "ok"
             => out.tiles.n >= map.layers[1].tiles.w * map.layers[1].tiles.h

\* A zero code parsed into an empty cell that generate wrote back as zero.
C8_Witness ==
  /\ SizedBuffer
  /\ out.status = "ok"
  /\ \E i \in 0..7 :
       /\ i < out.tiles.n
       /\ ReadU16le(content.main, parsed.tileStart + 2 * i) = 0
       /\ TileAt(map.layers[1].tiles, i \div map.layers[1].tiles.w,
                 i % map.layers[1].tiles.w) = Undefined
       /\ OutTileWord(out, i) = 0
  /\ \E i \in 0..7 : OutTileWord(out, i) # 0

\* C9: a non-zero code c parses to the tile floor(c / 8) (for tiles up to 2000),
\* and parsing the code generate writes for a tile gives that tile again.
C9_TileCodeStable ==
  /\ (probe.from = "code" /\ probe.step >= 1 /\ probe.code # 0
      /\ probe.code \div 8 <= 2000)
     => probe.tile = FIFTHS * (probe.code \div 8)
  /\ (probe.from = "code" /\ probe.step = 3) => probe.tile2 = probe.tile

\* C10: parse returns a map exactly for a main of 70 bytes (a 10 x 7 grid read
\* from offset 0) or 1280 bytes (a 100 x 10 grid read from offset 256); for any
\* other length it raises an error and returns no map.
C10_DDaveSizes ==
  (handler = "map-ddave" /\ parsed.status # "none")
  => /\ parsed.status = "ok" <=> content.main.len \in { 70, 1280 }
     /\ parsed.status # "ok" => (parsed.status = "error" /\ map = NoMap)
     /\ (parsed.status = "ok" /\ content.main.len = 70)
          => /\ map.layers[1].tiles.w = 10 /\ map.layers[1].tiles.h = 7
             /\ parsed.tileStart = 0
     /\ (parsed.status = "ok" /\ content.main.len = 1280)
          => /\ map.layers[1].tiles.w = 100 /\ map.layers[1].tiles.h = 10
             /\ parsed.tileStart = DD_LAYER_LEN_PATH

(***************************************************************************)
(* checkLimits of both handlers.  A call is described by how it ended, the *)
(* issues pushed onto the local `issues` array while it ran (collected),   *)
(* the value it handed back (returned; None is JavaScript's undefined) and *)
(* the map as the call left it.                                            *)
(***************************************************************************)
MAX_PLAYERS == 1
MAX_PLATFORMS == 10
MAX_LIGHTS == 199
MAX_ACTORS == 410

\* The members of a set of integers in ascending order.
Ascending(S) ==
  [ k \in 1..Cardinality(S) |->
      CHOOSE i \in S : Cardinality({ j \in S : j < i }) = k - 1 ]

\* MapHandler.checkLimits: the only push is under `if (false)`.
MapHandlerCheckLimits(m) == <<>>

\* Map_DDave.checkLimits, lines 177-191: one issue per point whose delta
\* from the point before it is (DD_PATH_END, DD_PATH_END), in path order;
\* the issue names the point by its 1-based number.
PathIssues(path) ==
  LET hits == { i \in 2..Len(path) :
                  /\ path[i].x - path[i - 1].x = DD_PATH_END
                  /\ path[i].y - path[i - 1].y = DD_PATH_END }
      at == Ascending(hits)
  IN [ k \in 1..Len(at) |->
         [ kind |-> "pathEnd", point |-> at[k],
           x |-> path[at[k]].x, y |-> path[at[k]].y ] ]

\* Map_DDave.checkLimits.  Line 173 builds its message from
\* map.path[0].length; a map has no `path` property, so the message raises a
\* TypeError before anything is pushed.  The function has no return
\* statement, so a call that does not raise hands back undefined.
DDaveCheckLimits(m) ==
  LET issues == MapHandlerCheckLimits(m)
      hasPath == IsDefined(m.paths) /\ Len(m.paths[1]) > 0
      path == m.paths[1][1]
  IN IF hasPath /\ Len(path) > DD_MAX_PATH
       THEN [ map |-> m, status |-> "error", error |-> "TypeError",
              collected |-> issues, returned |-> None ]
       ELSE [ map |-> m, status |-> "ok", error |-> "",
              collected |-> issues \o (IF hasPath THEN PathIssues(path)
                                       ELSE <<>>),
              returned |-> None ]

\* The number of items of an actor layer with lo <= code <= hi.
CountCodes(items, lo, hi) ==
  Cardinality({ k \in DOMAIN items : items[k].code >= lo /\ items[k].code <= hi })

\* CosmoCheckLimits cutting the actor layer down to MAX_ACTORS items once it
\* has reported them.
CosmoCheckLimitsTrimming(m) ==
  LET items == m.layers[2].items
      One(cond, kind, n, max) ==
        IF cond THEN << [ kind |-> kind, count |-> n, max |-> max ] >>
        ELSE <<>>
      issues ==
        One(Len(items) > MAX_ACTORS, "actors", Len(items), MAX_ACTORS)
        \o One(CountCodes(items, 0, 0) > MAX_PLAYERS, "players",
               CountCodes(items, 0, 0), MAX_PLAYERS)
        \o One(CountCodes(items, 1, 5) > MAX_PLATFORMS, "platforms",
               CountCodes(items, 1, 5), MAX_PLATFORMS)
        \o One(CountCodes(items, 6, 8) > MAX_LIGHTS, "lights",
               CountCodes(items, 6, 8), MAX_LIGHTS)
  IN IF Len(m.layers) < 2
       THEN [ map |-> m, status |-> "error", error |-> "TypeError",
              collected |-> <<>>, returned |-> None ]
       ELSE [ map |-> [ m EXCEPT !.layers[2].items =
                          SubSeq(@, 1, Min(Len(@), MAX_ACTORS)) ],
              status |-> "ok", error |-> "",
              collected |-> issues, returned |-> Some(issues) ]

\* CosmoCheckLimits with the player cap tested by >= instead of >.
CosmoCheckLimitsCapInclusive(m) ==
  LET items == m.layers[2].items
      One(cond, kind, n, max) ==
        IF cond THEN << [ kind |-> kind, count |-> n, max |-> max ] >>
        ELSE <<>>
      issues ==
        One(Len(items) > MAX_ACTORS, "actors", Len(items), MAX_ACTORS)
        \o One(CountCodes(items, 0, 0) >= MAX_PLAYERS, "players",
               CountCodes(items, 0, 0), MAX_PLAYERS)
        \o One(CountCodes(items, 1, 5) > MAX_PLATFORMS, "platforms",
               CountCodes(items, 1, 5), MAX_PLATFORMS)
        \o One(CountCodes(items, 6, 8) > MAX_LIGHTS, "lights",
               CountCodes(items, 6, 8), MAX_LIGHTS)
  IN IF Len(m.layers) < 2
       THEN [ map |-> m, status |-> "error", error |-> "TypeError",
              collected |-> <<>>, returned |-> None ]
       ELSE [ map |-> m, status |-> "ok", error |-> "",
              collected |-> issues, returned |-> Some(issues) ]

\* Map_Cosmo.checkLimits, lines 328-357.  map.layers[1].items of a map with
\* one layer raises a TypeError (line 331).
CosmoCheckLimits(m) ==
  LET items == m.layers[2].items
      One(cond, kind, n, max) ==
        IF cond THEN << [ kind |-> kind, count |-> n, max |-> max ] >>
        ELSE <<>>
      issues ==
        One(Len(items) > MAX_ACTORS, "actors", Len(items), MAX_ACTORS)
        \o One(CountCodes(items, 0, 0) > MAX_PLAYERS, "players",
               CountCodes(items, 0, 0), MAX_PLAYERS)
        \o One(CountCodes(items, 1, 5) > MAX_PLATFORMS, "platforms",
               CountCodes(items, 1, 5), MAX_PLATFORMS)
        \o One(CountCodes(items, 6, 8) > MAX_LIGHTS, "lights",
               CountCodes(items, 6, 8), MAX_LIGHTS)
  IN IF Len(m.layers) < 2
       THEN [ map |-> m, status |-> "error", error |-> "TypeError",
              collected |-> <<>>, returned |-> None ]
       ELSE [ map |-> m, status |-> "ok", error |-> "",
              collected |-> issues, returned |-> Some(issues) ]

(***************************************************************************)
(* Resizing and tile placement queries.  A JavaScript number that may be   *)
(* NaN, and a limit that may be undefined, is held as an optional value:   *)
(* None is NaN / undefined.                                                *)
(***************************************************************************)
\* Map2D constructor, map2d.js lines 59-71.
Map2DLimits(m) ==
  [ minimumMapSize |-> [ x |-> Some(0), y |-> Some(0) ],
    maximumMapSize |-> [ x |-> None, y |-> None ] ]

\* Math.min: NaN when an argument is NaN or undefined.
MathMin(a, b) ==
  IF ~IsDefined(a) \/ ~IsDefined(b) THEN None
  ELSE IF a[1] < b[1] THEN a ELSE b

\* Math.max: NaN when an argument is NaN or undefined.
MathMax(a, b) ==
  IF ~IsDefined(a) \/ ~IsDefined(b) THEN None
  ELSE IF a[1] > b[1] THEN a ELSE b

\* Map2D.queryResize: `permitted` is computed and dropped; the function has
\* no return statement.
Map2DQueryResize(m, proposed) ==
  LET lim == Map2DLimits(m)
      px == MathMax(MathMin(proposed.x, lim.maximumMapSize.x),
                    lim.minimumMapSize.x)
      py == MathMax(MathMin(proposed.y, lim.maximumMapSize.y),
                    lim.minimumMapSize.y)
  IN [ map |-> m, status |-> "ok", error |-> "",
       permitted |-> [ x |-> px, y |-> py ], returned |-> None ]

\* Map2D_Cosmo.queryResize, lines 273-294: `permitted` is what the base
\* method returned; reading permitted.x of undefined (line 280) raises a
\* TypeError.  The method has no return statement either.
CosmoQueryResize(m, proposed) ==
  LET permitted == Map2DQueryResize(m, proposed).returned
  IN IF ~IsDefined(permitted)
       THEN [ map |-> m, status |-> "error", error |-> "TypeError",
              returned |-> None ]
       ELSE [ map |-> m, status |-> "ok", error |-> "", returned |-> None ]

\* DDaveResize storing the new size instead of raising.
DDaveResizeApplying(m, newSize) ==
  [ map |-> [ m EXCEPT !.mapSize = Some(newSize) ], status |-> "ok",
    error |-> "", returned |-> None ]

\* Map2D_DDave.resize, lines 143-145: throws at once.
DDaveResize(m, newSize) ==
  [ map |-> m, status |-> "error", error |-> "Error", returned |-> None ]

\* Map2D_Cosmo.resize, lines 296-304: throws in its first statement.
CosmoResize(m, newSize) ==
  [ map |-> m, status |-> "error", error |-> "Error", returned |-> None ]

\* Map2D_Layer_Tiled.isPermittedAt, lines 273-279; MapLayer_DDave_BG does
\* not override it.
TiledIsPermittedAt(layer, x, y, item) ==
  [ status |-> "ok", error |-> "",
    returned |-> Some([ valid |-> FALSE, reason |-> "not implemented" ]) ]

\* Layer_CosmoBG.isPermittedAt, lines 97-108: line 98 reads `map`, which is
\* neither a parameter, a local nor a module-level name, so evaluating it
\* raises a ReferenceError.
CosmoBGIsPermittedAt(layer, x, y, item) ==
  [ status |-> "error", error |-> "ReferenceError", returned |-> None ]

(***************************************************************************)
(* The handlers queried: a caller parses a file, may give the map a path   *)
(* or an actor layer, then asks checkLimits, queryResize, resize and       *)
(* isPermittedAt, and may have the Dangerous Dave handler generate.        *)
(* `calls` is the log of these calls in the order they were made.          *)
(***************************************************************************)
Call(op, args, r) ==
  [ op |-> op, args |-> args, status |-> r.status, error |-> r.error,
    returned |-> r.returned ]

OpsContents ==
  { [ main |-> CosmoFile(11121, 256, <<>>, 0, <<>>), enemy |-> None ],
    [ main |-> CosmoFile(0, 4, << [ type |-> 0, x |-> 3, y |-> 4 ] >>, 0,
                         (0 :> 16)), enemy |-> None ] }

OpsDDaveContents ==
  { [ main |-> Buffer(70, 0, <<>>), enemy |-> None ],
    [ main |-> Buffer(1280, 0, (0 :> 234) @@ (1 :> 234) @@ (256 :> 11)),
      enemy |-> None ],
    [ main |-> Buffer(1280, 5, (0 :> 7) @@ (1 :> 9)),
      enemy |-> Some(Buffer(96, 0, (0 :> 1) @@ (8 :> 40) @@ (16 :> 48))) ] }

\* A path of n points one pixel apart.
StraightPath(n) == [ i \in 1..n |-> [ x |-> i, y |-> 0 ] ]

\* The values a caller gives map.paths: an array of paths.
SamplePaths ==
  { <<>>,
    << <<>> >>,
    << << [ x |-> 10, y |-> 10 ], [ x |-> 20, y |-> 30 ],
          [ x |-> 25, y |-> 31 ] >> >>,
    << << [ x |-> 10, y |-> 10 ], [ x |-> 244, y |-> 244 ],
          [ x |-> 245, y |-> 244 ], [ x |-> 479, y |-> 478 ] >> >>,
    << StraightPath(DD_MAX_PATH - 1) >>,
    << StraightPath(DD_MAX_PATH) >>,
    << StraightPath(DD_MAX_PATH + 1) >>,
    << StraightPath(DD_MAX_PATH) \o << [ x |-> 362, y |-> 234 ] >> >> }

\* An actor layer's items: `players` items of code 0, then `platforms` items
\* of codes 1..5, `lights` items of codes 6..8 and `others` items of code 31.
ActorItems(players, platforms, lights, others) ==
  [ k \in 1..(players + platforms + lights + others) |->
      [ x |-> k % 256, y |-> k \div 256,
        code |-> IF k <= players THEN 0
                 ELSE IF k <= players + platforms
                   THEN 1 + ((k - players - 1) % 5)
                 ELSE IF k <= players + platforms + lights
                   THEN 6 + ((k - players - platforms - 1) % 3)
                 ELSE 31 ] ]

SampleActorItems ==
  { ActorItems(p, f, l, o) :
      p \in { MAX_PLAYERS, MAX_PLAYERS + 1 },
      f \in { MAX_PLATFORMS, MAX_PLATFORMS + 1 },
      l \in { MAX_LIGHTS, MAX_LIGHTS + 1 },
      o \in { 0, MAX_ACTORS - MAX_PLAYERS - MAX_PLATFORMS - MAX_LIGHTS - 3,
              MAX_ACTORS - MAX_PLAYERS - MAX_PLATFORMS - MAX_LIGHTS } }
  \cup { ActorItems(0, 0, 0, 0), ActorItems(0, 0, 0, MAX_ACTORS),
         ActorItems(0, 0, 0, MAX_ACTORS + 1) }

SampleSizes ==
  { [ x |-> Some(64), y |-> Some(511) ], [ x |-> Some(100000), y |-> Some(5) ] }

SamplePlaces ==
  { [ x |-> 0, y |-> 0, code |-> 1 ], [ x |-> 300, y |-> 200, code |-> 5 ] }

InitOps ==
  /\ \/ handler = "map-cosmo" /\ content \in OpsContents
     \/ handler = "map-ddave" /\ content \in OpsDDaveContents
  /\ map = NoMap
  /\ parsed = ParseTrace("none", "", <<>>, 0, 0)
  /\ edits = {}
  /\ out = NoOutput
  /\ probe = ProbeOff
  /\ calls = <<>>
  /\ cli = NoCli

\* The caller sets map.paths.
EditSetPaths ==
  /\ handler = "map-ddave"
  /\ parsed.status = "ok"
  /\ out.status = "none"
  /\ calls = <<>>
  /\ ~IsDefined(map.paths)
  /\ \E paths \in SamplePaths : map' = [ map EXCEPT !.paths = Some(paths) ]
  /\ edits' = edits \cup { "paths" }
  /\ UNCHANGED <<handler, content, parsed, out, probe, calls, cli>>

\* The caller appends an actor layer to the parsed map.
EditSetActors ==
  /\ handler = "map-cosmo"
  /\ parsed.status = "ok"
  /\ calls = <<>>
  /\ Len(map.layers) = 1
  /\ \E items \in SampleActorItems :
       map' = [ map EXCEPT !.layers =
                  Append(@, [ type |-> "2d.list", items |-> items ]) ]
  /\ edits' = edits \cup { "layers" }
  /\ UNCHANGED <<handler, content, parsed, out, probe, calls, cli>>

\* The caller changes the size of the background layer without resizing
\* its tiles array (Map2D_Layer_Tiled.layerW, map2d-layer-tiled.js lines
\* 176-187).
EditSetLayerSize ==
  /\ parsed.status = "ok"
  /\ out.status = "none"
  /\ calls = <<>>
  /\ "layerW" \notin edits
  /\ map' = [ map EXCEPT !.layers[1].layerW = @ + 1 ]
  /\ edits' = edits \cup { "layerW" }
  /\ UNCHANGED <<handler, content, parsed, out, probe, calls, cli>>

\* issues = Map_Cosmo.checkLimits(map)
CheckLimitsCosmo ==
  /\ handler = "map-cosmo"
  /\ parsed.status = "ok"
  /\ Len(calls) < MaxCalls
  /\ LET r == CosmoCheckLimits(map) IN
       /\ map' = r.map
       /\ calls' = Append(calls, Call("checkLimits", <<>>, r))
  /\ UNCHANGED <<handler, content, parsed, edits, out, probe, cli>>

\* issues = Map_DDave.checkLimits(map)
CheckLimitsDDave ==
  /\ handler = "map-ddave"
  /\ parsed.status = "ok"
  /\ Len(calls) < MaxCalls
  /\ LET r == DDaveCheckLimits(map) IN
       /\ map' = r.map
       /\ calls' = Append(calls, Call("checkLimits", <<>>, r))
  /\ UNCHANGED <<handler, content, parsed, edits, out, probe, cli>>

\* permitted = map.queryResize(proposed) on a Cosmo map
QueryResizeCosmo ==
  /\ handler = "map-cosmo"
  /\ parsed.status = "ok"
  /\ Len(calls) < MaxCalls
  /\ \E proposed \in SampleSizes :
       LET r == CosmoQueryResize(map, proposed) IN
         /\ map' = r.map
         /\ calls' = Append(calls, Call("queryResize", proposed, r))
  /\ UNCHANGED <<handler, content, parsed, edits, out, probe, cli>>

\* permitted = map.queryResize(proposed) on a Dangerous Dave map, which
\* inherits Map2D.queryResize
QueryResizeDDave ==
  /\ handler = "map-ddave"
  /\ parsed.status = "ok"
  /\ Len(calls) < MaxCalls
  /\ \E proposed \in SampleSizes :
       LET r == Map2DQueryResize(map, proposed) IN
         /\ map' = r.map
         /\ calls' = Append(calls, Call("queryResize", proposed, r))
  /\ UNCHANGED <<handler, content, parsed, edits, out, probe, cli>>

\* map.resize(newSize) on a Cosmo map
ResizeCosmo ==
  /\ handler = "map-cosmo"
  /\ parsed.status = "ok"
  /\ Len(calls) < MaxCalls
  /\ \E newSize \in SampleSizes :
       LET r == CosmoResize(map, newSize) IN
         /\ map' = r.map
         /\ calls' = Append(calls, Call("resize", newSize, r))
  /\ UNCHANGED <<handler, content, parsed, edits, out, probe, cli>>

\* map.resize(newSize) on a Dangerous Dave map
ResizeDDave ==
  /\ handler = "map-ddave"
  /\ parsed.status = "ok"
  /\ Len(calls) < MaxCalls
  /\ \E newSize \in SampleSizes :
       LET r == DDaveResize(map, newSize) IN
         /\ map' = r.map
         /\ calls' = Append(calls, Call("resize", newSize, r))
  /\ UNCHANGED <<handler, content, parsed, edits, out, probe, cli>>

\* map.layers[0].isPermittedAt(x, y, code) on a Cosmo map
IsPermittedAtCosmo ==
  /\ handler = "map-cosmo"
  /\ parsed.status = "ok"
  /\ Len(calls) < MaxCalls
  /\ \E at \in SamplePlaces :
       calls' = Append(calls,
                       Call("isPermittedAt", at,
                            CosmoBGIsPermittedAt(map.layers[1], at.x, at.y,
                                                 at.code)))
  /\ UNCHANGED <<handler, content, map, parsed, edits, out, probe, cli>>

\* map.layers[0].isPermittedAt(x, y, code) on a Dangerous Dave map
IsPermittedAtDDave ==
  /\ handler = "map-ddave"
  /\ parsed.status = "ok"
  /\ Len(calls) < MaxCalls
  /\ \E at \in SamplePlaces :
       calls' = Append(calls,
                       Call("isPermittedAt", at,
                            TiledIsPermittedAt(map.layers[1], at.x, at.y,
                                               at.code)))
  /\ UNCHANGED <<handler, content, map, parsed, edits, out, probe, cli>>

NextOps ==
  \/ ParseCosmo
  \/ ParseDDave
  \/ EditSetPaths
  \/ EditSetActors
  \/ EditSetLayerSize
  \/ CheckLimitsCosmo
  \/ CheckLimitsDDave
  \/ QueryResizeCosmo
  \/ QueryResizeDDave
  \/ ResizeCosmo
  \/ ResizeDDave
  \/ IsPermittedAtCosmo
  \/ IsPermittedAtDDave
  \/ GenerateDDave

SpecOps == InitOps /\ [][NextOps]_vars

(***************************************************************************)
(* Properties of the queried handlers.                                     *)
(***************************************************************************)
\* The checkLimits calls of the log.
CheckLimitsCalls == { i \in DOMAIN calls : calls[i].op = "checkLimits" }

\* The first path of a Dangerous Dave map that has one.
HasPath == 
  /\ handler = "map-ddave" /\ parsed.status = "ok"
  /\ IsDefined(map.paths) /\ Len(map.paths[1]) > 0

\* The points of a path whose delta from the point before is the reserved
\* pair.
EndDeltaPoints(path) ==
  { i \in 2..Len(path) : /\ path[i].x - path[i - 1].x = DD_PATH_END
                         /\ path[i].y - path[i - 1].y = DD_PATH_END }

\* C11: Map_DDave.checkLimits hands back a list of issues for every map
\* parse produces, and the empty list for the map parsed from 70 zero bytes
\* with no enemy buffer.
C11_DDaveCheckLimitsList ==
  (handler = "map-ddave" /\ edits = {}) =>
    \A i \in CheckLimitsCalls :
      /\ calls[i].status = "ok"
      /\ IsDefined(calls[i].returned)
      /\ (content = [ main |-> Buffer(70, 0, <<>>), enemy |-> None ]
            => calls[i].returned = Some(<<>>))

\* C12: for a Dangerous Dave map whose first path has a point with the
\* reserved delta (0xEA, 0xEA), the list checkLimits hands back holds an
\* issue for that point; for a path of fewer than 128 points without such a
\* delta the list is empty.
C12_PathEndDeltaReported ==
  HasPath =>
    LET path == map.paths[1][1] IN
    \A i \in CheckLimitsCalls :
      /\ \A p \in EndDeltaPoints(path) :
           /\ IsDefined(calls[i].returned)
           /\ \E k \in DOMAIN calls[i].returned[1] :
                /\ calls[i].returned[1][k].kind = "pathEnd"
                /\ calls[i].returned[1][k].point = p
      /\ (EndDeltaPoints(path) = {} /\ Len(path) < DD_MAX_PATH)
           => calls[i].returned = Some(<<>>)

\* C13: for a Dangerous Dave map whose first path has more than 128 points,
\* checkLimits does not raise; it hands back a list holding an issue for the
\* length and one for every point with the reserved delta.
C13_LongPathReported ==
  (HasPath /\ Len(map.paths[1][1]) > DD_MAX_PATH) =>
    LET path == map.paths[1][1] IN
    \A i \in CheckLimitsCalls :
      /\ calls[i].status = "ok"
      /\ IsDefined(calls[i].returned)
      /\ \E k \in DOMAIN calls[i].returned[1] :
           calls[i].returned[1][k].kind = "pathLength"
      /\ \A p \in EndDeltaPoints(path) :
           \E k \in DOMAIN calls[i].returned[1] :
             /\ calls[i].returned[1][k].kind = "pathEnd"
             /\ calls[i].returned[1][k].point = p

\* A Cosmo map that has an actor layer.
HasActorLayer ==
  handler = "map-cosmo" /\ parsed.status = "ok" /\ Len(map.layers) >= 2

\* The caps of the actor layer that `items` exceeds.
ExceededCaps(items) ==
  { c \in { "actors", "players", "platforms", "lights" } :
      \/ c = "actors" /\ Len(items) > 410
      \/ c = "players"
           /\ Cardinality({ k \in DOMAIN items : items[k].code = 0 }) > 1
      \/ c = "platforms"
           /\ Cardinality({ k \in DOMAIN items : items[k].code \in 1..5 }) > 10
      \/ c = "lights"
           /\ Cardinality({ k \in DOMAIN items : items[k].code \in 6..8 }) > 199 }

\* C14: for a Cosmo map with an actor layer, checkLimits hands back a list
\* with exactly one issue for each exceeded cap (410 items, 1 player, 10
\* platforms, 199 lights) and nothing else; a count equal to its cap is not
\* reported.
C14_ActorCaps ==
  HasActorLayer =>
    \A i \in CheckLimitsCalls :
      /\ calls[i].status = "ok"
      /\ IsDefined(calls[i].returned)
      /\ LET issues == calls[i].returned[1]
             caps == ExceededCaps(map.layers[2].items)
         IN /\ Len(issues) = Cardinality(caps)
            /\ { issues[k].kind : k \in DOMAIN issues } = caps

\* checkLimits was called on a layer of 412 items with 2 players, exactly
\* 10 platforms and 200 lights, and reported three issues.
C14_Witness ==
  /\ HasActorLayer
  /\ Len(map.layers[2].items) = 412
  /\ CountCodes(map.layers[2].items, 1, 5) = MAX_PLATFORMS
  /\ \E i \in CheckLimitsCalls :
       /\ IsDefined(calls[i].returned)
       /\ Len(calls[i].returned[1]) = 3

\* C15: a map parse has just returned for a Cosmo file has an actor layer at
\* layers[1] with one item per actor record, in file order, carrying the
\* record's type, x and y; checkLimits does not fault on it.
C15_ParsedActorLayer ==
  (handler = "map-cosmo" /\ parsed.status = "ok" /\ edits = {}) =>
    /\ Len(map.layers) >= 2
    /\ map.layers[2].items =
         [ k \in DOMAIN parsed.actors |->
             [ x |-> parsed.actors[k].x, y |-> parsed.actors[k].y,
               code |-> parsed.actors[k].type ] ]
    /\ \A i \in CheckLimitsCalls : calls[i].status = "ok"

C17_PathTerminator ==
  (HasPath /\ out.status # "none"
     /\ EndDeltaPoints(map.paths[1][1]) = {}
     /\ Len(map.paths[1][1]) <= DD_MAX_PATH) =>
    LET len == Len(map.paths[1][1]) IN
    /\ out.status = "ok"
    /\ len < DD_MAX_PATH =>
         /\ ByteAt(out.main, 2 * len) = DD_PATH_END
         /\ ByteAt(out.main, 2 * len + 1) = DD_PATH_END
    /\ len = DD_MAX_PATH =>
         ByteAt(out.main, DD_LAYER_LEN_PATH) = TileAt(map.layers[1].tiles, 0, 0)

\* The size Map2D.queryResize is documented to return: each axis raised to
\* the minimum and, where there is a maximum, lowered to it.
Clamped(m, proposed) ==
  LET lim == Map2DLimits(m)
      Axis(v, lo, hi) ==
        LET capped == IF IsDefined(hi) /\ hi[1] < v[1] THEN hi ELSE v
        IN IF capped[1] < lo[1] THEN lo ELSE capped
  IN [ x |-> Axis(proposed.x, lim.minimumMapSize.x, lim.maximumMapSize.x),
       y |-> Axis(proposed.y, lim.minimumMapSize.y, lim.maximumMapSize.y) ]

\* C18: every queryResize call returns an object; for a map that inherits
\* Map2D.queryResize the object is the proposed size clamped into the map's
\* limits.
C18_QueryResizeReturns ==
  \A i \in DOMAIN calls :
    calls[i].op = "queryResize" =>
      /\ calls[i].status = "ok"
      /\ IsDefined(calls[i].returned)
      /\ handler = "map-ddave"
           => calls[i].returned = Some(Clamped(map, calls[i].args))

\* C19: a resize call on a Dangerous Dave map raises an error and leaves
\* the map as it was.
C19_ResizeFails ==
  [][ResizeDDave => /\ map' = map
                    /\ calls'[Len(calls')].op = "resize"
                    /\ calls'[Len(calls')].status = "error"]_vars

\* resize was called on a Dangerous Dave map that has enemies and a path.
C19_Witness ==
  /\ HasPath
  /\ Len(map.layers[2].items) > 0
  /\ \E i \in DOMAIN calls : calls[i].op = "resize" /\ calls[i].status = "error"

\* C20: every isPermittedAt call on a tiled layer returns an object with a
\* boolean `valid`, without raising.
C20_IsPermittedAtReturns ==
  \A i \in DOMAIN calls :
    calls[i].op = "isPermittedAt" =>
      /\ calls[i].status = "ok"
      /\ IsDefined(calls[i].returned)
      /\ calls[i].returned[1].valid \in BOOLEAN

(***************************************************************************)
(* Properties of parse and generate, continued.                            *)
(***************************************************************************)
\* C25: when parse returns a Dangerous Dave map for a content with an enemy
\* buffer, the four records i = 0..3 were read as u16le values at offsets
\* 2i (enabled), 2i+8 (pixel X), 2i+16 (pixel Y), 2i+24 (path offset) and
\* 2i+32 (calmness), and the enemy layer holds one item per record with a
\* non-zero enabled flag, in record order, with code i, x = pixel X and
\* y = pixel Y - 16; with no enemy buffer the enemy layer is empty.
C25_EnemyRecords ==
  (handler = "map-ddave" /\ parsed.status = "ok" /\ edits = {}) =>
    LET items == map.layers[2].items IN
    IF ~IsDefined(content.enemy) THEN items = <<>>
    ELSE
      LET e == content.enemy[1]
          U16(p) == ByteAt(e, p) + 256 * ByteAt(e, p + 1)
          on == { i \in 0..3 : U16(2 * i) # 0 }
          list == DDaveEnemyList(e)
      IN /\ Len(list) = 4
         /\ \A i \in 0..3 :
              /\ list[i + 1].enabled = (U16(2 * i) # 0)
              /\ list[i + 1].pixelX = U16(2 * i + 8)
              /\ list[i + 1].pixelY = U16(2 * i + 16)
              /\ list[i + 1].pathOffset = U16(2 * i + 24)
              /\ list[i + 1].calmness = U16(2 * i + 32)
         /\ Len(items) = Cardinality(on)
         /\ \A k \in DOMAIN items :
              /\ items[k].code \in on
              /\ items[k].x = U16(2 * items[k].code + 8)
              /\ items[k].y = U16(2 * items[k].code + 16) - 16
              /\ k > 1 => items[k - 1].code < items[k].code

\* A map parsed with an enemy buffer whose records 0 and 2 are enabled.
C25_Witness ==
  /\ handler = "map-ddave" /\ parsed.status = "ok"
  /\ IsDefined(content.enemy)
  /\ Len(map.layers[2].items) = 2
  /\ map.layers[2].items[1].code = 0
  /\ map.layers[2].items[2].code = 2
  /\ map.layers[2].items[2].x = 300

\* C26: a Cosmo parse that has been called has ended, with a map or with an
\* error, whatever the header's mapWidth.
C26_ParseTerminates ==
  (handler = "map-cosmo" /\ parsed.status # "none") =>
    \/ parsed.status = "ok" /\ map # NoMap
    \/ parsed.status = "error" /\ map = NoMap

\* C27: a Cosmo parse that returns a map has read lenActorChunk / 3 actor
\* records, lenActorChunk words in all, and has read the tile codes from
\* byte offset 6 + 2 * lenActorChunk on.
C27_ActorChunkWords ==
  (handler = "map-cosmo" /\ parsed.status = "ok") =>
    LET lenActorChunk == ByteAt(content.main, 4) + 256 * ByteAt(content.main, 5)
    IN /\ 3 * Len(parsed.actors) = lenActorChunk
       /\ parsed.tileStart = 6 + 2 * lenActorChunk

\* A Cosmo map whose tile grid has the shape parse gives it, with mapSize
\* and an actor layer set so that generate reaches its tile loop.
ParseShaped ==
  /\ SizedBuffer
  /\ map.layers[1].tiles.h = 32764 \div map.layers[1].tiles.w
  /\ map.mapSize[1].x = map.layers[1].tiles.w

\* C28: when generate runs on a map whose tile grid is W wide and
\* floor(32764 / W) high, every tile position i = 0..32763 lies in an
\* existing row, and the tile loop does not fault on a missing row.
C28_TileRowsExist ==
  ParseShaped =>
    /\ \A i \in 0..32763 :
         i \div map.mapSize[1].x < map.layers[1].tiles.h
    /\ ~(out.status = "error" /\ out.error = "TypeError" /\ out.at = "tiles")

\* C29: every queryResize call on a Cosmo map returns a size whose width is
\* one of 1024, 512, 256, 128 and 64, and a proposed width that is one of
\* these is returned unchanged.
C29_AllowedWidths ==
  handler = "map-cosmo" =>
    \A i \in DOMAIN calls :
      calls[i].op = "queryResize" =>
        /\ calls[i].status = "ok"
        /\ IsDefined(calls[i].returned)
        /\ calls[i].returned[1].x[1] \in { 1024, 512, 256, 128, 64 }
        /\ calls[i].args.x[1] \in { 1024, 512, 256, 128, 64 }
             => calls[i].returned[1].x = calls[i].args.x

\* A tiled layer of the map whose tiles array is not layerW wide and layerH
\* high.
LayerSizeMismatch ==
  /\ parsed.status = "ok"
  /\ \E l \in DOMAIN map.layers :
       /\ map.layers[l].type = "2d.tiled"
       /\ \/ map.layers[l].tiles.w # map.layers[l].layerW
          \/ map.layers[l].tiles.h # map.layers[l].layerH

\* C21: for a map with a tiled layer whose tiles array does not have the
\* layer's size, checkLimits does not raise and hands back a list that
\* holds an issue about the dimensions.
C21_DimensionsReported ==
  LayerSizeMismatch =>
    \A i \in CheckLimitsCalls :
      /\ calls[i].status = "ok"
      /\ IsDefined(calls[i].returned)
      /\ \E k \in DOMAIN calls[i].returned[1] :
           calls[i].returned[1][k].kind = "dimensions"

(***************************************************************************)
(* The command line interface (cli/index.js lines 20-289).  An Operations  *)
(* object holds this.handler and this.map, kept here in the variables      *)
(* `handler` and `map`; `content`, `parsed` and `out` hold what the last   *)
(* open read and parsed and what the last save generated.  `cli` holds     *)
(* the rest of the run: the commands done, the files read and written,     *)
(* standard error and the exit status.                                     *)
(***************************************************************************)
\* Largest number of commands on one command line.
MaxCommands == 3

\* An exception: its class and its message.
Err(class, message) == [ class |-> class, message |-> message ]

\* `all` of ../index.js: the ids of the registered handlers.
gamemapFormats == { "map-cosmo", "map-ddave" }

\* The values of `-t` on the command line; None when the option is absent.
SampleFormats == { None, Some("map-cosmo"), Some("map-ddave"), Some("map-xyz") }

\* The files on disk.
FileSystem ==
  ("a1.mni" :> CosmoFile(11121, 256, <<>>, 0, <<>>))
  @@ ("w0.mni" :> CosmoFile(0, 0, <<>>, 0, <<>>))
  @@ ("cut.mni" :> Buffer(4, 0, <<>>))
  @@ ("level01.dav" :> Buffer(1280, 5, (0 :> 7) @@ (1 :> 9)))
  @@ ("title.dav" :> Buffer(70, 0, <<>>))
  @@ ("long.dav" :> Buffer(71, 0, <<>>))
  @@ ("a1.ex" :> Buffer(2, 0, <<>>))

\* The file name of a command; None when it is absent.
SampleTargets ==
  { None, Some("a1.mni"), Some("w0.mni"), Some("cut.mni"), Some("level01.dav"),
    Some("title.dav"), Some("long.dav"), Some("gone.mni") }

\* MapHandler.supps: null, which neither handler of formats/ overrides.
MapHandlerSupps == None

\* What handler.supps() hands back: null, or the file names of an
\* {id: filename} object in the order of its keys, as a handler that
\* overrides supps() gives.  No parse reads these ids.
SampleSuppLists ==
  { MapHandlerSupps, Some(<< "a1.ex" >>), Some(<< "gone.ex" >>),
    Some(<< "a1.ex", "gone.ex" >>) }

\* The layer argument of `text`; None when it is absent.
SampleLayers == { None, Some(0), Some(1), Some(5) }

\* parse(content) called without options (map-ddave.js line 195).
NoOptions ==
  [ monsterTileIndex |-> None, playerStartX |-> None, playerStartY |-> None ]

\* The outcome of an Operations method that raised `error`.
Raised(error) ==
  [ status |-> "error", error |-> error, reads |-> <<>>, handler |-> "none",
    map |-> NoMap, trace |-> ParseTrace("none", "", <<>>, 0, 0) ]

\* Operations.open with the handler assigned before parse is called.
OperationsOpenHandlerFirst(format, target, suppList) ==
  LET id == format[1]
      name == target[1]
      supps == IF IsDefined(suppList) THEN suppList[1] ELSE <<>>
      bad == { i \in DOMAIN supps : supps[i] \notin DOMAIN FileSystem }
      firstBad == CHOOSE i \in bad : \A j \in bad : i <= j
      c == [ main |-> FileSystem[name], enemy |-> None ]
      r == IF id = "map-cosmo" THEN CosmoParse(c) ELSE DDaveParse(c, NoOptions)
  IN IF ~IsDefined(format)
       THEN Raised(Err("OperationsError",
                       "open: must specify file format with -t."))
     ELSE IF ~IsDefined(target)
       THEN Raised(Err("OperationsError", "open: missing filename."))
     ELSE IF id \notin gamemapFormats
       THEN Raised(Err("OperationsError", "Invalid format code"))
     ELSE IF name \notin DOMAIN FileSystem
       THEN [ Raised(Err("Error", "ENOENT")) EXCEPT !.reads = << name >> ]
     ELSE IF bad # {}
       THEN [ Raised(Err("OperationsError",
                         "open: unable to open supplementary file"))
                EXCEPT !.reads = << name >> \o SubSeq(supps, 1, firstBad) ]
     ELSE [ status  |-> IF r.trace.status = "ok" THEN "ok"
                        ELSE IF r.trace.status = "diverges" THEN "hung"
                        ELSE "error",
            error   |-> IF r.trace.error = "Error"
                          THEN Err("Error", "Unrecognised map size")
                        ELSE Err(r.trace.error, "parse"),
            reads   |-> << name >> \o supps,
            handler |-> id,
            map     |-> r.map,
            trace   |-> r.trace ]

\* Lines 65-97: Operations.open(params), with suppList what
\* handler.supps() handed back.  `reads` lists the readFileSync calls;
\* `handler` and `map` are what the call assigns to this.handler and
\* this.map ("none" and NoMap: no assignment).
OperationsOpen(format, target, suppList) ==
  LET id == format[1]
      name == target[1]
      supps == IF IsDefined(suppList) THEN suppList[1] ELSE <<>>
      bad == { i \in DOMAIN supps : supps[i] \notin DOMAIN FileSystem }
      firstBad == CHOOSE i \in bad : \A j \in bad : i <= j
      c == [ main |-> FileSystem[name], enemy |-> None ]
      r == IF id = "map-cosmo" THEN CosmoParse(c) ELSE DDaveParse(c, NoOptions)
  IN IF ~IsDefined(format)
       THEN Raised(Err("OperationsError",
                       "open: must specify file format with -t."))
     ELSE IF ~IsDefined(target)
       THEN Raised(Err("OperationsError", "open: missing filename."))
     ELSE IF id \notin gamemapFormats
       THEN Raised(Err("OperationsError", "Invalid format code"))
     ELSE IF name \notin DOMAIN FileSystem
       THEN [ Raised(Err("Error", "ENOENT")) EXCEPT !.reads = << name >> ]
     ELSE IF bad # {}
       THEN [ Raised(Err("OperationsError",
                         "open: unable to open supplementary file"))
                EXCEPT !.reads = << name >> \o SubSeq(supps, 1, firstBad) ]
     ELSE [ status  |-> IF r.trace.status = "ok" THEN "ok"
                        ELSE IF r.trace.status = "diverges" THEN "hung"
                        ELSE "error",
            error   |-> IF r.trace.error = "Error"
                          THEN Err("Error", "Unrecognised map size")
                        ELSE Err(r.trace.error, "parse"),
            reads   |-> << name >> \o supps,
            handler |-> IF r.trace.status = "ok" THEN id ELSE "none",
            map     |-> r.map,
            trace   |-> r.trace ]

\* Lines 40-63: Operations.info().
OperationsInfo(m) ==
  IF m.type = "none"
    THEN \* line 42: this.map is undefined
         [ status |-> "error", error |-> Err("TypeError", "this.map") ]
  ELSE [ status |-> "ok", error |-> Err("", "") ]

\* Lines 132-173: Operations.text(params).  The layer index is a string of
\* the command line, so index 0 is given too (`!'0'` is false).
OperationsText(m, layer) ==
  IF ~IsDefined(layer)
    THEN [ status |-> "error",
           error |-> Err("OperationsError", "text: missing layer index.") ]
  ELSE IF m.type = "none"
    THEN \* line 139: this.map is undefined
         [ status |-> "error", error |-> Err("TypeError", "this.map") ]
  ELSE IF layer[1] + 1 \notin DOMAIN m.layers
    THEN [ status |-> "error",
           error |-> Err("OperationsError", "text: layer does not exist.") ]
  ELSE IF m.layers[layer[1] + 1].type = "2d.tiled"
    THEN \* line 145: a map has getSize(), not size()
         [ status |-> "error", error |-> Err("TypeError", "this.map.size") ]
  ELSE [ status |-> "ok", error |-> Err("", "") ]

\* The outcome of a save that raised `error` before any file was written;
\* `problems` is what checkLimits handed back and `generated` tells whether
\* generate was called.
SaveRaised(error, problems, generated, o) ==
  [ status |-> "error", error |-> error, problems |-> problems,
    generated |-> generated, out |-> o ]

\* Operations.save without lines 105-112: the list of problems is not
\* looked at.
OperationsSaveUnchecked(h, m, target, grow) ==
  LET r == IF h = "map-cosmo" THEN CosmoCheckLimits(m) ELSE DDaveCheckLimits(m)
      g == IF h = "map-cosmo" THEN CosmoGenerate(m, grow) ELSE DDaveGenerate(m)
  IN IF ~IsDefined(target)
       THEN SaveRaised(Err("OperationsError", "save: missing filename"),
                       None, FALSE, NoOutput)
     ELSE IF h = "none" \/ m.type = "none"
       THEN SaveRaised(Err("TypeError", "this.handler"), None, FALSE, NoOutput)
     ELSE IF r.status # "ok"
       THEN SaveRaised(Err(r.error, "checkLimits"), None, FALSE, NoOutput)
     ELSE IF ~IsDefined(r.returned)
       THEN SaveRaised(Err("TypeError", "problems.length"), None, FALSE,
                       NoOutput)
     ELSE IF g.status # "ok"
       THEN SaveRaised(Err(g.error, "generate"), r.returned, TRUE, g)
     ELSE [ status |-> "writing", error |-> Err("", ""),
            problems |-> r.returned, generated |-> TRUE, out |-> g ]

\* Lines 99-115: Operations.save(params) up to the call of generate.
OperationsSave(h, m, target, grow) ==
  LET r == IF h = "map-cosmo" THEN CosmoCheckLimits(m) ELSE DDaveCheckLimits(m)
      g == IF h = "map-cosmo" THEN CosmoGenerate(m, grow) ELSE DDaveGenerate(m)
  IN IF ~IsDefined(target)
       THEN SaveRaised(Err("OperationsError", "save: missing filename"),
                       None, FALSE, NoOutput)
     ELSE IF h = "none" \/ m.type = "none"
       THEN \* line 104: this.handler is undefined
            SaveRaised(Err("TypeError", "this.handler"), None, FALSE, NoOutput)
     ELSE IF r.status # "ok"
       THEN SaveRaised(Err(r.error, "checkLimits"), None, FALSE, NoOutput)
     ELSE IF ~IsDefined(r.returned)
       THEN \* line 105: problems is undefined
            SaveRaised(Err("TypeError", "problems.length"), None, FALSE,
                       NoOutput)
     ELSE IF Len(r.returned[1]) > 0
       THEN SaveRaised(Err("OperationsError",
                           "save: cannot save due to file format limitations."),
                       r.returned, FALSE, NoOutput)
     ELSE IF g.status # "ok"
       THEN SaveRaised(Err(g.error, "generate"), r.returned, TRUE, g)
     ELSE [ status |-> "writing", error |-> Err("", ""),
            problems |-> r.returned, generated |-> TRUE, out |-> g ]

\* Lines 117-127: the files save starts a write for, in the order of
\* `promises`, with suppList what handler.supps() handed back.
SaveFiles(target, suppList) ==
  (IF IsDefined(suppList) THEN suppList[1] ELSE <<>>) \o << target[1] >>

\* A command line run that has not processed a command yet.
CliStart ==
  [ phase |-> "run", done |-> 0, madeBy |-> "none", reads |-> <<>>,
    stderr |-> <<>>, exit |-> None, raised |-> None,
    last |-> [ name |-> "none", format |-> None, target |-> None,
               status |-> "none" ] ]

\* A command as processCommands took it from the command line, and how its
\* Operations method ended.
Command(name, format, target, status) ==
  [ name |-> name, format |-> format, target |-> target, status |-> status ]

\* AfterCommand carrying on with the next command after an OperationsError
\* was printed.
AfterCommandCarryOn(c, cmd, error) ==
  IF cmd.status = "ok"
    THEN [ c EXCEPT !.done = @ + 1, !.raised = None, !.last = cmd ]
  ELSE IF cmd.status = "hung"
    THEN [ c EXCEPT !.done = @ + 1, !.raised = None, !.last = cmd,
                    !.phase = "hung" ]
  ELSE IF error.class = "OperationsError"
    THEN [ c EXCEPT !.done = @ + 1, !.raised = Some(error), !.last = cmd,
                    !.stderr = Append(@, error.message) ]
  ELSE [ c EXCEPT !.done = @ + 1, !.raised = Some(error), !.last = cmd,
                  !.phase = "rejected" ]

\* Lines 271-279 of processCommands: a command that returned leaves the
\* loop running; an OperationsError is printed to standard error and the
\* process exits with status 2; any other exception is thrown on, which
\* rejects the promise processCommands returned.
AfterCommand(c, cmd, error) ==
  IF cmd.status = "ok"
    THEN [ c EXCEPT !.done = @ + 1, !.raised = None, !.last = cmd ]
  ELSE IF cmd.status = "hung"
    THEN [ c EXCEPT !.done = @ + 1, !.raised = None, !.last = cmd,
                    !.phase = "hung" ]
  ELSE IF error.class = "OperationsError"
    THEN [ c EXCEPT !.done = @ + 1, !.raised = Some(error), !.last = cmd,
                    !.stderr = Append(@, error.message),
                    !.exit = Some(2), !.phase = "exited" ]
  ELSE [ c EXCEPT !.done = @ + 1, !.raised = Some(error), !.last = cmd,
                  !.phase = "rejected" ]

InitCli ==
  /\ handler = "none"
  /\ content = [ main |-> Buffer(0, 0, <<>>), enemy |-> None ]
  /\ map = NoMap
  /\ parsed = ParseTrace("none", "", <<>>, 0, 0)
  /\ edits = {}
  /\ out = NoOutput
  /\ probe = ProbeOff
  /\ calls = <<>>
  /\ cli = CliStart

\* gamemap ... open -t <format> <target> ...
CmdOpen ==
  /\ cli.phase = "run"
  /\ cli.done < MaxCommands
  /\ \E format \in SampleFormats, target \in SampleTargets,
        suppList \in SampleSuppLists :
       LET r == OperationsOpen(format, target, suppList)
           c == AfterCommand(cli, Command("open", format, target, r.status),
                             r.error)
       IN /\ handler' = IF r.handler # "none" THEN r.handler ELSE handler
          /\ map' = IF r.map.type # "none" THEN r.map ELSE map
          /\ parsed' = IF r.trace.status # "none" THEN r.trace ELSE parsed
          /\ content' = IF r.trace.status # "none"
                          THEN [ main |-> FileSystem[target[1]],
                                 enemy |-> None ]
                        ELSE content
          /\ cli' = [ c EXCEPT !.reads = @ \o r.reads,
                               !.madeBy = IF r.map.type # "none"
                                            THEN format[1] ELSE @ ]
  /\ UNCHANGED <<edits, out, probe, calls>>

\* gamemap ... save <target> ...  With the maps open produces, save raises
\* before it starts a write.
CmdSave ==
  /\ cli.phase = "run"
  /\ cli.done < MaxCommands
  /\ \E target \in SampleTargets, grow \in BOOLEAN :
       LET r == OperationsSave(handler, map, target, grow) IN
         /\ r.status = "error"
         /\ out' = IF r.generated THEN r.out ELSE out
         /\ cli' = AfterCommand(cli, Command("save", None, target, r.status),
                                r.error)
  /\ UNCHANGED <<handler, content, map, parsed, edits, probe, calls>>

\* gamemap ... info ...  (or its alias dump)
CmdInfo ==
  /\ cli.phase = "run"
  /\ cli.done < MaxCommands
  /\ LET r == OperationsInfo(map) IN
       cli' = AfterCommand(cli, Command("info", None, None, r.status), r.error)
  /\ UNCHANGED <<handler, content, map, parsed, edits, out, probe, calls>>

\* gamemap ... text <layer> ...
CmdText ==
  /\ cli.phase = "run"
  /\ cli.done < MaxCommands
  /\ \E layer \in SampleLayers :
       LET r == OperationsText(map, layer) IN
         cli' = AfterCommand(cli, Command("text", None, None, r.status),
                             r.error)
  /\ UNCHANGED <<handler, content, map, parsed, edits, out, probe, calls>>

\* Lines 280-283: a command name that is not a method of Operations.
CmdUnknown ==
  /\ cli.phase = "run"
  /\ cli.done < MaxCommands
  /\ cli' = [ cli EXCEPT !.done = @ + 1, !.raised = None,
                         !.last = Command("unknown", None, None, "exit"),
                         !.stderr = Append(@, "Unknown command"),
                         !.exit = Some(1), !.phase = "exited" ]
  /\ UNCHANGED <<handler, content, map, parsed, edits, out, probe, calls>>

\* Line 266: no command is left, processCommands returns and the process
\* ends with status 0.
CmdEnd ==
  /\ cli.phase = "run"
  /\ cli' = [ cli EXCEPT !.exit = Some(0), !.phase = "exited" ]
  /\ UNCHANGED <<handler, content, map, parsed, edits, out, probe, calls>>

\* The caller of processCommands, for the promise it rejected: the message
\* of the error goes to standard error and the process exits with status 1.
LauncherCatch ==
  /\ cli.phase = "rejected"
  /\ cli' = [ cli EXCEPT !.stderr = Append(@, cli.raised[1].message),
                         !.exit = Some(1), !.phase = "exited" ]
  /\ UNCHANGED <<handler, content, map, parsed, edits, out, probe, calls>>

NextCli ==
  \/ CmdOpen
  \/ CmdSave
  \/ CmdInfo
  \/ CmdText
  \/ CmdUnknown
  \/ CmdEnd
  \/ LauncherCatch

SpecCli == InitCli /\ [][NextCli]_vars

(***************************************************************************)
(* Operations.save on its own (cli/index.js lines 99-130): this.handler    *)
(* and this.map are given, save is called, and the writes it started       *)
(* complete one by one.  this.map is a map as parse returned it or as an   *)
(* editor left it: with an actor layer and a map size.                     *)
(***************************************************************************)
\* Largest number of save calls on one Operations object.
MaxSaves == 2

\* The items of the actor layer of this.map.
SampleSaveItems ==
  { ActorItems(0, 0, 0, 0), ActorItems(1, 1, 0, 1),
    ActorItems(MAX_PLAYERS + 1, 0, 0, 0), ActorItems(0, 0, 0, MAX_ACTORS + 1) }

\* The file name given to save; None when it is absent.
SampleSaveTargets == { None, Some("a1.mni") }

\* The Cosmo maps save is called with: parsed from a file of width 4, with
\* or without an actor layer, with or without map.mapSize.
SampleSaveMaps ==
  LET base == CosmoParse([ main |-> CosmoFile(0, 4, <<>>, 0, (0 :> 16)),
                           enemy |-> None ]).map
      size == Some([ x |-> base.layers[1].tiles.w,
                     y |-> base.layers[1].tiles.h ])
  IN { base }
     \cup { [ base EXCEPT !.mapSize = ms,
                          !.layers = Append(@, [ type  |-> "2d.list",
                                                 items |-> items ]) ] :
              ms \in { None, size }, items \in SampleSaveItems }

\* No save called yet.
SaveStart ==
  [ phase |-> "save", saves |-> <<>>, files |-> <<>>, writes |-> <<>>,
    order |-> <<>>, result |-> "none", generated |-> 0, written |-> {} ]

\* Promise.allSettled in the place of Promise.all: the promise is fulfilled
\* once no write is pending.
PromiseAllSettled(writes, result) ==
  IF result # "pending" THEN result
  ELSE IF \A f \in DOMAIN writes : writes[f] # "pending" THEN "fulfilled"
  ELSE "pending"

\* Line 129: Promise.all(promises) after one of the writes completed.  A
\* settled promise stays as it is; a pending one is rejected by the first
\* write that fails and fulfilled when every write is done.
PromiseAll(writes, result) ==
  IF result # "pending" THEN result
  ELSE IF \E f \in DOMAIN writes : writes[f] = "failed" THEN "rejected"
  ELSE IF \A f \in DOMAIN writes : writes[f] = "done" THEN "fulfilled"
  ELSE "pending"

InitSave ==
  /\ \/ handler = "map-cosmo" /\ map \in SampleSaveMaps
     \/ /\ handler = "map-ddave"
        /\ map = DDaveParse([ main |-> Buffer(70, 0, <<>>), enemy |-> None ],
                            NoOptions).map
  /\ content = [ main |-> Buffer(0, 0, <<>>), enemy |-> None ]
  /\ parsed = ParseTrace("none", "", <<>>, 0, 0)
  /\ edits = {}
  /\ out = NoOutput
  /\ probe = ProbeOff
  /\ calls = <<>>
  /\ cli = SaveStart

\* No save is awaited and no write is under way.
SaveIdle ==
  /\ cli.phase = "save"
  /\ cli.result # "pending"
  /\ \A f \in DOMAIN cli.writes : cli.writes[f] # "pending"

\* await proc.save(params), up to the await of line 129.
SaveCall ==
  /\ SaveIdle
  /\ Len(cli.saves) < MaxSaves
  /\ \E target \in SampleSaveTargets, grow \in BOOLEAN :
       LET r == OperationsSave(handler, map, target, grow)
           entry == [ target    |-> target,
                      problems  |-> r.problems,
                      status    |-> r.status,
                      error     |-> r.error,
                      generated |-> r.generated ]
       IN
         /\ out' = IF r.generated THEN r.out ELSE out
         /\ \E suppList \in IF r.status = "writing" THEN SampleSuppLists
                            ELSE { MapHandlerSupps } :
              LET files == IF r.status = "writing"
                             THEN SaveFiles(target, suppList) ELSE <<>>
              IN cli' = [ cli EXCEPT
                          !.saves = Append(@, entry),
                          !.files = files,
                          !.writes = [ f \in { files[k] : k \in DOMAIN files }
                                         |-> "pending" ],
                          !.order = <<>>,
                          !.result = IF r.status = "writing" THEN "pending"
                                     ELSE "rejected",
                          !.generated = IF r.generated THEN @ + 1 ELSE @ ]
  /\ UNCHANGED <<handler, content, map, parsed, edits, probe, calls>>

\* fs.promises.writeFile of one file is fulfilled.
WriteSucceeds ==
  /\ cli.phase = "save"
  /\ \E f \in DOMAIN cli.writes :
       /\ cli.writes[f] = "pending"
       /\ LET w == [ cli.writes EXCEPT ![f] = "done" ] IN
            cli' = [ cli EXCEPT !.writes = w,
                                !.order = Append(@, f),
                                !.written = @ \cup { f },
                                !.result = PromiseAll(w, @) ]
  /\ UNCHANGED <<handler, content, map, parsed, edits, out, probe, calls>>

\* fs.promises.writeFile of one file is rejected.
WriteFails ==
  /\ cli.phase = "save"
  /\ \E f \in DOMAIN cli.writes :
       /\ cli.writes[f] = "pending"
       /\ LET w == [ cli.writes EXCEPT ![f] = "failed" ] IN
            cli' = [ cli EXCEPT !.writes = w,
                                !.order = Append(@, f),
                                !.result = PromiseAll(w, @) ]
  /\ UNCHANGED <<handler, content, map, parsed, edits, out, probe, calls>>

\* Between two saves the items of the actor layer are changed
\* (Map2D_Layer_List.items).
EditSaveItems ==
  /\ SaveIdle
  /\ handler = "map-cosmo"
  /\ Len(map.layers) = 2
  /\ "items" \notin edits
  /\ \E items \in SampleSaveItems :
       /\ items # map.layers[2].items
       /\ map' = [ map EXCEPT !.layers[2].items = items ]
  /\ edits' = edits \cup { "items" }
  /\ UNCHANGED <<handler, content, parsed, out, probe, calls, cli>>

NextSave ==
  \/ SaveCall
  \/ WriteSucceeds
  \/ WriteFails
  \/ EditSaveItems

SpecSave == InitSave /\ [][NextSave]_vars

StoredPair ==
  /\ handler = cli.madeBy
  /\ handler = "none" <=> map = NoMap
  /\ handler = "map-cosmo" => map.type = "Map2D_Cosmo"
  /\ handler = "map-ddave" => map.type = "Map2D_DDave"

\* A step that is an open command.
OpenStep == cli'.done = cli.done + 1 /\ cli'.last.name = "open"

\* C30: this.handler is the handler whose parse returned this.map; an open
\* that fails (no format, no file name, unknown format id, unreadable main
\* or supplementary file, parse error) leaves this.map and this.handler as
\* they were; an open that succeeds stores the handler of its format; an
\* open with an unknown format id reads no file.
C30_OpenStoresPair ==
  /\ [](StoredPair)
  /\ [][ OpenStep =>
           /\ cli'.last.status # "ok" => map' = map /\ handler' = handler
           /\ cli'.last.status = "ok" => handler' = cli'.last.format[1]
           /\ ( /\ IsDefined(cli'.last.format)
                /\ cli'.last.format[1] \notin gamemapFormats )
                => cli'.reads = cli.reads ]_vars

\* After a1.mni was opened as map-cosmo, open -t map-ddave on a file of 71
\* bytes has failed: the Cosmo map and its handler are still stored.
C30_Witness ==
  /\ cli.done = 2
  /\ cli.last = Command("open", Some("map-ddave"), Some("long.dav"), "error")
  /\ handler = "map-cosmo"
  /\ map.type = "Map2D_Cosmo"
  /\ cli.reads = << "a1.mni", "long.dav" >>

\* The error save raises for a map over the limits of its format.
LimitsError ==
  Err("OperationsError", "save: cannot save due to file format limitations.")

\* this.handler.checkLimits(this.map) hands back a list that is not empty.
HasProblems ==
  /\ handler = "map-cosmo"
  /\ Len(map.layers) >= 2
  /\ IsDefined(CosmoCheckLimits(map).returned)
  /\ CosmoCheckLimits(map).returned[1] # <<>>

\* A step that is a call of save with a file name.
SaveStep ==
  /\ Len(cli'.saves) = Len(cli.saves) + 1
  /\ IsDefined(cli'.saves[Len(cli'.saves)].target)

\* C22: every save called while checkLimits hands back a list that is not
\* empty is refused: it raises the limits error, generate is not called and
\* no write is started, so no file is written; this holds for each later
\* save as well, and a save called once the list is empty does not raise
\* the limits error.
C22_SaveRefused ==
  /\ [][ SaveStep /\ HasProblems =>
           /\ cli'.saves[Len(cli'.saves)].status = "error"
           /\ cli'.saves[Len(cli'.saves)].error = LimitsError
           /\ cli'.result = "rejected"
           /\ cli'.generated = cli.generated
           /\ out' = out
           /\ cli'.files = <<>>
           /\ cli'.written = cli.written ]_vars
  /\ [][ SaveStep /\ ~HasProblems =>
           cli'.saves[Len(cli'.saves)].error # LimitsError ]_vars

\* A first save was refused for a map over the limits; the actor items were
\* then changed and a second save went on to generate and to its writes.
C22_Witness ==
  /\ Len(cli.saves) = 2
  /\ cli.saves[1].error = LimitsError
  /\ cli.saves[1].problems # Some(<<>>)
  /\ ~cli.saves[1].generated
  /\ "items" \in edits
  /\ cli.saves[2].status = "writing"
  /\ cli.saves[2].problems = Some(<<>>)

\* C23: the promise save awaits is fulfilled only when every write it
\* started, of the supplementary files and of the main file, is done, in
\* whatever order they completed; as soon as one write has failed the
\* promise is rejected and it is never fulfilled afterwards.
C23_AllWritesOrFailure ==
  /\ [](cli.result = "fulfilled" =>
          /\ \A f \in DOMAIN cli.writes : cli.writes[f] = "done"
          /\ Len(cli.order) = Len(cli.files))
  /\ []((\E f \in DOMAIN cli.writes : cli.writes[f] = "failed") =>
          cli.result = "rejected")
  /\ [][cli.result = "rejected" /\ Len(cli'.saves) = Len(cli.saves) =>
          cli'.result = "rejected"]_vars

\* The write of the main file, started last, completed first and succeeded;
\* the write of the supplementary file then failed and save is rejected.
C23_Witness ==
  /\ cli.files = << "a1.ex", "a1.mni" >>
  /\ cli.order = << "a1.mni", "a1.ex" >>
  /\ cli.writes["a1.mni"] = "done"
  /\ cli.writes["a1.ex"] = "failed"
  /\ cli.result = "rejected"

====
